---------------------------- MODULE Spec2Model ----------------------------
(***************************************************************************)
(* State machine of the modal colour picker (src/src/main.rs,              *)
(* src/src/modal.rs, src/src/color_input.rs): the host loop reads one      *)
(* terminal event, update() routes it by visibility and focus, and the     *)
(* loop continues while update() returns true.                             *)
(***************************************************************************)
EXTENDS Integers, Sequences, FiniteSets, TLC

VARIABLES
    color_picker,   \* Model.color_picker: modal_state, grid_index, color_input, focus
    running,        \* main: `let mut running = true`
    message,        \* main: `let message = handle_event()?`, the event handled last
    steps,          \* number of events handled, counted only by the bounded specification
    palette,        \* which (colors, grid_dimensions) the widget was constructed with
    panicked        \* the process aborted in a panic (unreachable!(), String index out of range)

vars == <<color_picker, running, message, steps, palette, panicked>>

(***************************************************************************)
(* Bounds of the model.                                                    *)
(***************************************************************************)
\* Number of events handled in a run of the bounded specification SpecEdit.
MaxSteps == 6

(***************************************************************************)
(* Option<T>.                                                              *)
(***************************************************************************)
None == [some |-> FALSE, val |-> "none"]
Some(x) == [some |-> TRUE, val |-> x]

Min(a, b) == IF a <= b THEN a ELSE b
\* usize::saturating_sub
saturating_sub(a, b) == IF a >= b THEN a - b ELSE 0

(***************************************************************************)
(* Characters: one-character strings.                                      *)
(***************************************************************************)
Digits == <<"0", "1", "2", "3", "4", "5", "6", "7", "8", "9">>
Lower == <<"a", "b", "c", "d", "e", "f", "g", "h", "i", "j", "k", "l", "m",
           "n", "o", "p", "q", "r", "s", "t", "u", "v", "w", "x", "y", "z">>
Upper == <<"A", "B", "C", "D", "E", "F", "G", "H", "I", "J", "K", "L", "M",
           "N", "O", "P", "Q", "R", "S", "T", "U", "V", "W", "X", "Y", "Z">>
Range(s) == {s[i] : i \in DOMAIN s}

\* char::is_ascii_hexdigit: 0-9, a-f, A-F
is_ascii_hexdigit(c) ==
    \/ c \in Range(Digits)
    \/ \E i \in 1..6 : c = Lower[i] \/ c = Upper[i]

\* char::to_ascii_uppercase: a-z map to A-Z, every other character to itself
to_ascii_uppercase(c) ==
    IF \E i \in DOMAIN Lower : Lower[i] = c
    THEN Upper[CHOOSE i \in DOMAIN Lower : Lower[i] = c]
    ELSE c

\* The digits of the {:02X} format: upper-case hexadecimal
UpperHexDigits == Digits \o SubSeq(Upper, 1, 6)

\* format!("{v:02X}") of a u8: two upper-case hex digits, zero padded
fmt_02X(v) == <<UpperHexDigits[(v \div 16) + 1], UpperHexDigits[(v % 16) + 1]>>

(***************************************************************************)
(* Colours (ratatui::style::Color).                                        *)
(***************************************************************************)
Rgb(r, g, b) == [tag |-> "Rgb", r |-> r, g |-> g, b |-> b]

\* The variants without channels: Color::Reset, the named colours, Indexed
NonRgb(tag) == [tag |-> tag, r |-> 0, g |-> 0, b |-> 0]

\* Color::from_u32(0x00RRGGBB), how the material palette builds its swatches
from_u32(u) == Rgb((u \div 65536) % 256, (u \div 256) % 256, u % 256)

\* ratatui::style::palette::material, the sixteen hues of generate_colors in
\* the order of its `hues` array; each field is the 0xRRGGBB value of a swatch.
material ==
  <<
     (* RED         *) [c50 |-> 16772078, c100 |-> 16764370, c200 |-> 15702682, c300 |-> 15037299, c400 |-> 15684432, c500 |-> 16007990, c600 |-> 15022389, c700 |-> 13840175, c800 |-> 12986408, c900 |-> 12000284],
     (* PINK        *) [c50 |-> 16573676, c100 |-> 16301008, c200 |-> 16027569, c300 |-> 15753874, c400 |-> 15483002, c500 |-> 15277667, c600 |-> 14162784, c700 |-> 12720219, c800 |-> 11342935, c900 |-> 8916559],
     (* PURPLE      *) [c50 |-> 15984117, c100 |-> 14794471, c200 |-> 13538264, c300 |-> 12216520, c400 |-> 11225020, c500 |-> 10233776, c600 |-> 9315498, c700 |-> 8069026, c800 |-> 6953882, c900 |-> 4854924],
     (* DEEP_PURPLE *) [c50 |-> 15591414, c100 |-> 13747433, c200 |-> 11771355, c300 |-> 9795021, c400 |-> 8280002, c500 |-> 6765239, c600 |-> 6174129, c700 |-> 5320104, c800 |-> 4532128, c900 |-> 3218322],
     (* INDIGO      *) [c50 |-> 15264502, c100 |-> 12962537, c200 |-> 10463450, c300 |-> 7964363, c400 |-> 6056896, c500 |-> 4149685, c600 |-> 3754411, c700 |-> 3162015, c800 |-> 2635155, c900 |-> 1713022],
     (* BLUE        *) [c50 |-> 14938877, c100 |-> 12312315, c200 |-> 9489145, c300 |-> 6600182, c400 |-> 4367861, c500 |-> 2201331, c600 |-> 2001125, c700 |-> 1668818, c800 |-> 1402304, c900 |-> 870305],
     (* LIGHT_BLUE  *) [c50 |-> 14808574, c100 |-> 11789820, c200 |-> 8508666, c300 |-> 5227511, c400 |-> 2733814, c500 |-> 240116, c600 |-> 236517, c700 |-> 166097, c800 |-> 161725, c900 |-> 87963],
     (* CYAN        *) [c50 |-> 14743546, c100 |-> 11725810, c200 |-> 8445674, c300 |-> 5099745, c400 |-> 2541274, c500 |-> 48340, c600 |-> 44225, c700 |-> 38823, c800 |-> 33679, c900 |-> 24676],
     (* TEAL        *) [c50 |-> 14742257, c100 |-> 11722715, c200 |-> 8440772, c300 |-> 5093036, c400 |-> 2533018, c500 |-> 38536, c600 |-> 35195, c700 |-> 31083, c800 |-> 26972, c900 |-> 19776],
     (* GREEN       *) [c50 |-> 15267305, c100 |-> 13166281, c200 |-> 10868391, c300 |-> 8505220, c400 |-> 6732650, c500 |-> 5025616, c600 |-> 4431943, c700 |-> 3706428, c800 |-> 3046706, c900 |-> 1793568],
     (* LIGHT_GREEN *) [c50 |-> 15857897, c100 |-> 14478792, c200 |-> 12968357, c300 |-> 11457921, c400 |-> 10275941, c500 |-> 9159498, c600 |-> 8172354, c700 |-> 6856504, c800 |-> 5606191, c900 |-> 3369246],
     (* LIME        *) [c50 |-> 16382951, c100 |-> 15791299, c200 |-> 15134364, c300 |-> 14477173, c400 |-> 13951319, c500 |-> 13491257, c600 |-> 12634675, c700 |-> 11514923, c800 |-> 10394916, c900 |-> 8550167],
     (* YELLOW      *) [c50 |-> 16776679, c100 |-> 16775620, c200 |-> 16774557, c300 |-> 16773494, c400 |-> 16772696, c500 |-> 16771899, c600 |-> 16635957, c700 |-> 16498733, c800 |-> 16361509, c900 |-> 16088855],
     (* AMBER       *) [c50 |-> 16775393, c100 |-> 16772275, c200 |-> 16769154, c300 |-> 16766287, c400 |-> 16763432, c500 |-> 16761095, c600 |-> 16757504, c700 |-> 16752640, c800 |-> 16748288, c900 |-> 16740096],
     (* ORANGE      *) [c50 |-> 16774112, c100 |-> 16769202, c200 |-> 16764032, c300 |-> 16758605, c400 |-> 16754470, c500 |-> 16750592, c600 |-> 16485376, c700 |-> 16088064, c800 |-> 15690752, c900 |-> 15094016],
     (* DEEP_ORANGE *) [c50 |-> 16509415, c100 |-> 16764092, c200 |-> 16755601, c300 |-> 16747109, c400 |-> 16740419, c500 |-> 16733986, c600 |-> 16011550, c700 |-> 15092249, c800 |-> 14172949, c900 |-> 12531212]
  >>

accents == <<50, 100, 200, 300, 400, 500, 600, 700, 800, 900>>

get_color_for_accent(hue, accent) ==
    CASE accent = 50  -> from_u32(hue.c50)
      [] accent = 100 -> from_u32(hue.c100)
      [] accent = 200 -> from_u32(hue.c200)
      [] accent = 300 -> from_u32(hue.c300)
      [] accent = 400 -> from_u32(hue.c400)
      [] accent = 500 -> from_u32(hue.c500)
      [] accent = 600 -> from_u32(hue.c600)
      [] accent = 700 -> from_u32(hue.c700)
      [] accent = 800 -> from_u32(hue.c800)
      [] accent = 900 -> from_u32(hue.c900)
      [] OTHER        -> from_u32(hue.c500)

\* generate_colors: accent-major, hue-minor push order; dimensions
\* (accents.len(), hues.len())
generate_colors ==
    [colors |-> [i \in 1..(Len(accents) * Len(material)) |->
                    get_color_for_accent(material[((i - 1) % Len(material)) + 1],
                                         accents[((i - 1) \div Len(material)) + 1])],
     grid_dimensions |-> <<Len(accents), Len(material)>>]

\* The table default() builds is held in the state by name, not by value:
\* 160 swatches in every state would only slow the search down.
BuiltIn == [generated |-> TRUE, colors |-> <<>>, grid_dimensions |-> <<0, 0>>]
\* A widget constructed with a table of its own (the fields are pub)
Given(cs, dims) == [generated |-> FALSE, colors |-> cs, grid_dimensions |-> dims]

\* ColorPickerWidget.colors and .grid_dimensions: set once by default(), never written
colors == IF palette.generated THEN generate_colors.colors ELSE palette.colors
grid_dimensions ==
    IF palette.generated THEN generate_colors.grid_dimensions ELSE palette.grid_dimensions

\* Vec::get(idx) with a 0-based index
vec_get(v, idx) == IF idx >= 0 /\ idx < Len(v) THEN Some(v[idx + 1]) ELSE None

\* selected_color with the index taken column-major (col * cols + row)
selected_color_column_major(cp) ==
    LET cols == grid_dimensions[2]
        idx  == cp.grid_index[2] * cols + cp.grid_index[1]
    IN  vec_get(colors, idx)

selected_color(cp) ==
    LET cols == grid_dimensions[2]
        idx  == cp.grid_index[1] * cols + cp.grid_index[2]
    IN  vec_get(colors, idx)

\* color_to_hex formatting with {:X}, without the zero padding to two digits
color_to_hex_unpadded(color) ==
    LET fmt_X(v) == IF v < 16 THEN <<UpperHexDigits[v + 1]>> ELSE fmt_02X(v)
    IN  IF color.tag = "Rgb"
        THEN Some(fmt_X(color.r) \o fmt_X(color.g) \o fmt_X(color.b))
        ELSE None

color_to_hex(color) ==
    IF color.tag = "Rgb"
    THEN Some(fmt_02X(color.r) \o fmt_02X(color.g) \o fmt_02X(color.b))
    ELSE None

(***************************************************************************)
(* Focus ring.                                                             *)
(***************************************************************************)
Focus == {"Grid", "Input", "Apply", "Cancel"}

\* focus_next with the Input arm skipping Apply
focus_next_skips_apply(f) ==
    CASE f = "Grid"   -> "Input"
      [] f = "Input"  -> "Cancel"
      [] f = "Apply"  -> "Cancel"
      [] f = "Cancel" -> "Grid"

focus_next(f) ==
    CASE f = "Grid"   -> "Input"
      [] f = "Input"  -> "Apply"
      [] f = "Apply"  -> "Cancel"
      [] f = "Cancel" -> "Grid"

\* focus_prev with the Grid arm wrapping to Apply instead of Cancel
focus_prev_wraps_to_apply(f) ==
    CASE f = "Grid"   -> "Apply"
      [] f = "Input"  -> "Grid"
      [] f = "Apply"  -> "Input"
      [] f = "Cancel" -> "Apply"

focus_prev(f) ==
    CASE f = "Grid"   -> "Cancel"
      [] f = "Input"  -> "Grid"
      [] f = "Apply"  -> "Input"
      [] f = "Cancel" -> "Apply"

(***************************************************************************)
(* Key events and messages.                                                *)
(***************************************************************************)
\* KeyEvent: code, the character of a KeyCode::Char (else ""), and the kind
Key(code, c, kind) == [code |-> code, c |-> c, kind |-> kind]
NoKey == Key("", "", "")

\* enum Message; KeyPress carries its KeyEvent
Msg(type) == [type |-> type, key |-> NoKey]
KeyPress(key) == [type |-> "KeyPress", key |-> key]

(***************************************************************************)
(* ColorInput::handle_key_event on (input, cursor_pos).                    *)
(***************************************************************************)
\* String::insert(idx, ch) and String::remove(idx), 0-based
str_insert(s, idx, ch) == SubSeq(s, 1, idx) \o <<ch>> \o SubSeq(s, idx + 1, Len(s))
str_remove(s, idx) == SubSeq(s, 1, idx) \o SubSeq(s, idx + 2, Len(s))

\* String::insert panics when idx is past the end, String::remove when idx is
\* not the index of a character (the text is ASCII: every index is a boundary)
str_insert_panics(s, idx) == idx > Len(s)
str_remove_panics(s, idx) == idx >= Len(s)

\* handle_key_event reaches a String::insert or String::remove that panics
handle_key_event_panics(ci, key) ==
    /\ key.kind = "Press"
    /\ CASE key.code = "Char" /\ is_ascii_hexdigit(key.c) /\ Len(ci.input) < 6 ->
                str_insert_panics(ci.input, ci.cursor_pos)
          [] key.code = "Backspace" /\ ci.cursor_pos > 0 ->
                str_remove_panics(ci.input, ci.cursor_pos - 1)
          [] key.code = "Delete" /\ ci.cursor_pos < Len(ci.input) ->
                str_remove_panics(ci.input, ci.cursor_pos)
          [] OTHER -> FALSE

\* handle_key_event whose Right arm does not clamp the cursor to the length
handle_key_event_right_unclamped(ci, key) ==
    IF key.kind # "Press" THEN ci
    ELSE CASE key.code = "Char" /\ is_ascii_hexdigit(key.c) /\ Len(ci.input) < 6 ->
                [input |-> str_insert(ci.input, ci.cursor_pos, to_ascii_uppercase(key.c)),
                 cursor_pos |-> ci.cursor_pos + 1]
           [] key.code = "Backspace" /\ ci.cursor_pos > 0 ->
                [input |-> str_remove(ci.input, ci.cursor_pos - 1),
                 cursor_pos |-> ci.cursor_pos - 1]
           [] key.code = "Left" ->
                [ci EXCEPT !.cursor_pos = saturating_sub(ci.cursor_pos, 1)]
           [] key.code = "Delete" /\ ci.cursor_pos < Len(ci.input) ->
                [ci EXCEPT !.input = str_remove(ci.input, ci.cursor_pos)]
           [] key.code = "Home" ->
                [ci EXCEPT !.cursor_pos = 0]
           [] key.code = "Right" ->
                [ci EXCEPT !.cursor_pos = ci.cursor_pos + 1]
           [] OTHER -> ci

\* handle_key_event inserting the character as typed
handle_key_event_no_uppercase(ci, key) ==
    IF key.kind # "Press" THEN ci
    ELSE CASE key.code = "Char" /\ is_ascii_hexdigit(key.c) /\ Len(ci.input) < 6 ->
                [input |-> str_insert(ci.input, ci.cursor_pos, key.c),
                 cursor_pos |-> ci.cursor_pos + 1]
           [] key.code = "Backspace" /\ ci.cursor_pos > 0 ->
                [input |-> str_remove(ci.input, ci.cursor_pos - 1),
                 cursor_pos |-> ci.cursor_pos - 1]
           [] key.code = "Left" ->
                [ci EXCEPT !.cursor_pos = saturating_sub(ci.cursor_pos, 1)]
           [] key.code = "Delete" /\ ci.cursor_pos < Len(ci.input) ->
                [ci EXCEPT !.input = str_remove(ci.input, ci.cursor_pos)]
           [] key.code = "Home" ->
                [ci EXCEPT !.cursor_pos = 0]
           [] key.code = "Right" ->
                [ci EXCEPT !.cursor_pos = Min(ci.cursor_pos + 1, Len(ci.input))]
           [] OTHER -> ci

\* handle_key_event whose Backspace arm removes the character at the cursor
handle_key_event_backspace_at_cursor(ci, key) ==
    IF key.kind # "Press" THEN ci
    ELSE CASE key.code = "Char" /\ is_ascii_hexdigit(key.c) /\ Len(ci.input) < 6 ->
                [input |-> str_insert(ci.input, ci.cursor_pos, to_ascii_uppercase(key.c)),
                 cursor_pos |-> ci.cursor_pos + 1]
           [] key.code = "Backspace" /\ ci.cursor_pos > 0 ->
                [input |-> str_remove(ci.input, ci.cursor_pos),
                 cursor_pos |-> ci.cursor_pos - 1]
           [] key.code = "Left" ->
                [ci EXCEPT !.cursor_pos = saturating_sub(ci.cursor_pos, 1)]
           [] key.code = "Delete" /\ ci.cursor_pos < Len(ci.input) ->
                [ci EXCEPT !.input = str_remove(ci.input, ci.cursor_pos)]
           [] key.code = "Home" ->
                [ci EXCEPT !.cursor_pos = 0]
           [] key.code = "Right" ->
                [ci EXCEPT !.cursor_pos = Min(ci.cursor_pos + 1, Len(ci.input))]
           [] OTHER -> ci

\* handle_key_event whose insert arm admits a character at length 6
handle_key_event_len_off_by_one(ci, key) ==
    IF key.kind # "Press" THEN ci
    ELSE CASE key.code = "Char" /\ is_ascii_hexdigit(key.c) /\ Len(ci.input) <= 6 ->
                [input |-> str_insert(ci.input, ci.cursor_pos, to_ascii_uppercase(key.c)),
                 cursor_pos |-> ci.cursor_pos + 1]
           [] key.code = "Backspace" /\ ci.cursor_pos > 0 ->
                [input |-> str_remove(ci.input, ci.cursor_pos - 1),
                 cursor_pos |-> ci.cursor_pos - 1]
           [] key.code = "Left" ->
                [ci EXCEPT !.cursor_pos = saturating_sub(ci.cursor_pos, 1)]
           [] key.code = "Delete" /\ ci.cursor_pos < Len(ci.input) ->
                [ci EXCEPT !.input = str_remove(ci.input, ci.cursor_pos)]
           [] key.code = "Home" ->
                [ci EXCEPT !.cursor_pos = 0]
           [] key.code = "Right" ->
                [ci EXCEPT !.cursor_pos = Min(ci.cursor_pos + 1, Len(ci.input))]
           [] OTHER -> ci

handle_key_event(ci, key) ==
    IF key.kind # "Press" THEN ci
    ELSE CASE key.code = "Char" /\ is_ascii_hexdigit(key.c) /\ Len(ci.input) < 6 ->
                [input |-> str_insert(ci.input, ci.cursor_pos, to_ascii_uppercase(key.c)),
                 cursor_pos |-> ci.cursor_pos + 1]
           [] key.code = "Backspace" /\ ci.cursor_pos > 0 ->
                [input |-> str_remove(ci.input, ci.cursor_pos - 1),
                 cursor_pos |-> ci.cursor_pos - 1]
           [] key.code = "Left" ->
                [ci EXCEPT !.cursor_pos = saturating_sub(ci.cursor_pos, 1)]
           [] key.code = "Delete" /\ ci.cursor_pos < Len(ci.input) ->
                [ci EXCEPT !.input = str_remove(ci.input, ci.cursor_pos)]
           [] key.code = "Home" ->
                [ci EXCEPT !.cursor_pos = 0]
           [] key.code = "Right" ->
                [ci EXCEPT !.cursor_pos = Min(ci.cursor_pos + 1, Len(ci.input))]
           [] OTHER -> ci

(***************************************************************************)
(* KeyHandler.                                                             *)
(***************************************************************************)
handle_global_keys(key) ==
    IF key.code = "Esc" \/ (key.code = "Char" /\ key.c \in {"q", "Q"})
    THEN Some(Msg("Quit"))
    ELSE IF key.code = "Char" /\ key.c \in {"p", "P"}
    THEN Some(Msg("ToggleModal"))
    ELSE None

\* update_grid_position clamping to rows and cols instead of rows-1 and cols-1
update_grid_position_clamps_to_len(cp, key_code) ==
    LET row == cp.grid_index[1]
        col == cp.grid_index[2]
    IN  CASE key_code = "Up"    -> [cp EXCEPT !.grid_index = <<saturating_sub(row, 1), col>>]
          [] key_code = "Down"  -> [cp EXCEPT !.grid_index = <<Min(row + 1, grid_dimensions[1]), col>>]
          [] key_code = "Left"  -> [cp EXCEPT !.grid_index = <<row, saturating_sub(col, 1)>>]
          [] key_code = "Right" -> [cp EXCEPT !.grid_index = <<row, Min(col + 1, grid_dimensions[2])>>]

\* update_grid_position wrapping around at the edges
update_grid_position_wraps(cp, key_code) ==
    LET row  == cp.grid_index[1]
        col  == cp.grid_index[2]
        rows == grid_dimensions[1]
        cols == grid_dimensions[2]
    IN  CASE key_code = "Up"    -> [cp EXCEPT !.grid_index = <<(row + rows - 1) % rows, col>>]
          [] key_code = "Down"  -> [cp EXCEPT !.grid_index = <<(row + 1) % rows, col>>]
          [] key_code = "Left"  -> [cp EXCEPT !.grid_index = <<row, (col + cols - 1) % cols>>]
          [] key_code = "Right" -> [cp EXCEPT !.grid_index = <<row, (col + 1) % cols>>]

\* Called with Up, Down, Left or Right only; any other code is unreachable!()
update_grid_position(cp, key_code) ==
    LET row     == cp.grid_index[1]
        col     == cp.grid_index[2]
        max_row == saturating_sub(grid_dimensions[1], 1)
        max_col == saturating_sub(grid_dimensions[2], 1)
    IN  CASE key_code = "Up"    -> [cp EXCEPT !.grid_index = <<saturating_sub(row, 1), col>>]
          [] key_code = "Down"  -> [cp EXCEPT !.grid_index = <<Min(row + 1, max_row), col>>]
          [] key_code = "Left"  -> [cp EXCEPT !.grid_index = <<row, saturating_sub(col, 1)>>]
          [] key_code = "Right" -> [cp EXCEPT !.grid_index = <<row, Min(col + 1, max_col)>>]

\* update_grid_position reaches its unreachable!() arm
update_grid_position_panics(key_code) ==
    key_code \notin {"Up", "Down", "Left", "Right"}

\* handle_modal_navigation without the early return on focus
handle_modal_navigation_any_focus(cp, key) ==
    IF key.code \in {"Up", "Down", "Left", "Right"}
    THEN [model |-> update_grid_position(cp, key.code),
          msg   |-> Some(Msg("UpdateColorFromGrid"))]
    ELSE [model |-> cp, msg |-> None]

\* Returns the model as left by update_grid_position and the Option<Message>
handle_modal_navigation(cp, key) ==
    IF cp.focus # "Grid"
    THEN [model |-> cp, msg |-> None]
    ELSE IF key.code \in {"Up", "Down", "Left", "Right"}
    THEN [model |-> update_grid_position(cp, key.code),
          msg   |-> Some(Msg("UpdateColorFromGrid"))]
    ELSE [model |-> cp, msg |-> None]

\* handle_modal_actions where Enter applies whatever the focus
handle_modal_actions_enter_any_focus(cp, key) ==
    CASE key.code = "Tab"     -> Some(Msg("FocusNext"))
      [] key.code = "BackTab" -> Some(Msg("FocusPrev"))
      [] key.code = "Enter"   ->
            (CASE cp.focus = "Cancel" -> Some(Msg("CancelColorSelection"))
               [] OTHER               -> Some(Msg("ApplyColor")))
      [] key.code = "Esc"     -> Some(Msg("CancelColorSelection"))
      [] OTHER                -> None

handle_modal_actions(cp, key) ==
    CASE key.code = "Tab"     -> Some(Msg("FocusNext"))
      [] key.code = "BackTab" -> Some(Msg("FocusPrev"))
      [] key.code = "Enter"   ->
            (CASE cp.focus = "Apply"  -> Some(Msg("ApplyColor"))
               [] cp.focus = "Cancel" -> Some(Msg("CancelColorSelection"))
               [] OTHER               -> None)
      [] key.code = "Esc"     -> Some(Msg("CancelColorSelection"))
      [] OTHER                -> None

\* handle_input_keys without the test on focus
handle_input_keys_any_focus(cp, key) ==
    [model   |-> [cp EXCEPT !.color_input = handle_key_event(cp.color_input, key)],
     handled |-> TRUE]

\* Returns the model and the bool result
handle_input_keys(cp, key) ==
    IF cp.focus = "Input"
    THEN [model   |-> [cp EXCEPT !.color_input = handle_key_event(cp.color_input, key)],
          handled |-> TRUE]
    ELSE [model |-> cp, handled |-> FALSE]

(***************************************************************************)
(* update and the functions it dispatches to.                              *)
(***************************************************************************)
\* update_color_from_grid that empties the field when there is no hex text
update_color_from_grid_clears_on_none(cp) ==
    LET color == selected_color(cp)
        hex   == IF color.some THEN color_to_hex(color.val) ELSE None
    IN  IF color.some /\ hex.some
        THEN [cp EXCEPT !.color_input = [input |-> hex.val, cursor_pos |-> Len(hex.val)]]
        ELSE [cp EXCEPT !.color_input = [input |-> <<>>, cursor_pos |-> 0]]

update_color_from_grid(cp) ==
    LET color == selected_color(cp)
        hex   == IF color.some THEN color_to_hex(color.val) ELSE None
    IN  IF color.some /\ hex.some
        THEN [cp EXCEPT !.color_input = [input |-> hex.val, cursor_pos |-> Len(hex.val)]]
        ELSE cp

\* toggle_modal that does not run the grid-to-field sync on open
toggle_modal_without_sync(cp) ==
    [cp EXCEPT !.modal_state = ~cp.modal_state]

\* toggle_modal that puts the focus back on the grid when it opens
toggle_modal_resets_focus(cp) ==
    LET toggled == [cp EXCEPT !.modal_state = ~cp.modal_state]
    IN  IF toggled.modal_state
        THEN update_color_from_grid([toggled EXCEPT !.focus = "Grid"])
        ELSE toggled

toggle_modal(cp) ==
    LET toggled == [cp EXCEPT !.modal_state = ~cp.modal_state]
    IN  IF toggled.modal_state THEN update_color_from_grid(toggled) ELSE toggled

\* Result<bool> of update together with the model it leaves behind
Ok(cp, b) == [model |-> cp, running |-> b]

RECURSIVE update(_, _)

\* handle_key_press routing to the modal whether or not it is visible
handle_key_press_ignores_visibility(cp, key) ==
    LET global == handle_global_keys(key)
        nav    == handle_modal_navigation(cp, key)
        action == handle_modal_actions(nav.model, key)
        inp    == handle_input_keys(nav.model, key)
    IN  IF global.some THEN update(cp, global.val)
        ELSE IF nav.msg.some THEN update(nav.model, nav.msg.val)
        ELSE IF action.some THEN update(nav.model, action.val)
        ELSE Ok(inp.model, TRUE)

handle_key_press(cp, key) ==
    LET global == handle_global_keys(key)
        nav    == handle_modal_navigation(cp, key)
        action == handle_modal_actions(nav.model, key)
        inp    == handle_input_keys(nav.model, key)
    IN  IF global.some THEN update(cp, global.val)
        ELSE IF cp.modal_state
        THEN IF nav.msg.some THEN update(nav.model, nav.msg.val)
             ELSE IF action.some THEN update(nav.model, action.val)
             ELSE IF inp.handled THEN Ok(inp.model, TRUE)
             ELSE Ok(inp.model, TRUE)
        ELSE Ok(cp, TRUE)

\* update whose KeyPress arm has no guard on the kind
update_any_kind(cp, msg) ==
    CASE msg.type = "KeyPress"             -> handle_key_press(cp, msg.key)
      [] msg.type = "UpdateColorFromGrid"  -> Ok(update_color_from_grid(cp), TRUE)
      [] msg.type = "ApplyColor"           -> Ok(cp, FALSE)
      [] msg.type = "CancelColorSelection" -> Ok(cp, FALSE)
      [] msg.type = "ToggleModal"          -> Ok(toggle_modal(cp), TRUE)
      [] msg.type = "FocusNext"            -> Ok([cp EXCEPT !.focus = focus_next(cp.focus)], TRUE)
      [] msg.type = "FocusPrev"            -> Ok([cp EXCEPT !.focus = focus_prev(cp.focus)], TRUE)
      [] msg.type = "Quit"                 -> Ok(cp, FALSE)
      [] OTHER                             -> Ok(cp, TRUE)

update(cp, msg) ==
    CASE msg.type = "KeyPress" /\ msg.key.kind = "Press" -> handle_key_press(cp, msg.key)
      [] msg.type = "UpdateColorFromGrid"  -> Ok(update_color_from_grid(cp), TRUE)
      [] msg.type = "ApplyColor"           -> Ok(cp, FALSE)
      [] msg.type = "CancelColorSelection" -> Ok(cp, FALSE)
      [] msg.type = "ToggleModal"          -> Ok(toggle_modal(cp), TRUE)
      [] msg.type = "FocusNext"            -> Ok([cp EXCEPT !.focus = focus_next(cp.focus)], TRUE)
      [] msg.type = "FocusPrev"            -> Ok([cp EXCEPT !.focus = focus_prev(cp.focus)], TRUE)
      [] msg.type = "Quit"                 -> Ok(cp, FALSE)
      [] msg.type = "Ignore"               -> Ok(cp, TRUE)
      [] OTHER                             -> Ok(cp, TRUE)

\* handle_key_press panics: in update_grid_position, called by
\* handle_modal_navigation, or in handle_key_event, called by handle_input_keys
handle_key_press_panics(cp, key) ==
    /\ ~handle_global_keys(key).some
    /\ cp.modal_state
    /\ \/ /\ cp.focus = "Grid"
          /\ key.code \in {"Up", "Down", "Left", "Right"}
          /\ update_grid_position_panics(key.code)
       \/ /\ ~(cp.focus = "Grid" /\ key.code \in {"Up", "Down", "Left", "Right"})
          /\ ~handle_modal_actions(cp, key).some
          /\ cp.focus = "Input"
          /\ handle_key_event_panics(cp.color_input, key)

\* update panics: only its KeyPress arm calls code that can
update_panics(cp, msg) ==
    /\ msg.type = "KeyPress"
    /\ msg.key.kind = "Press"
    /\ handle_key_press_panics(cp, msg.key)

\* handle_event: the Message for one terminal event
handle_event(event) ==
    CASE event.type = "Key"    -> KeyPress(event.key)
      [] event.type = "Resize" -> Msg("Ignore")
      [] OTHER                 -> Msg("Quit")

(***************************************************************************)
(* Events the terminal can deliver.                                        *)
(***************************************************************************)
Codes == {"Up", "Down", "Left", "Right", "Tab", "BackTab", "Enter", "Esc",
          "Backspace", "Delete", "Home"}
\* Field-editing codes left out of the unbounded specification
EditCodes == {"Backspace", "Delete"}
\* Characters typed: a lower-case hex letter, a digit, a non-hex letter,
\* the toggle key and a quit key
TypedChars == {"a", "7", "Z", "p", "Q"}
Kinds == {"Press", "Release", "Repeat"}

KeysOf(codes, chars, kinds) ==
    {Key(code, "", kind) : code \in codes, kind \in kinds}
        \cup {Key("Char", c, kind) : c \in chars, kind \in kinds}

AllKeys == KeysOf(Codes, TypedChars, Kinds)
NavKeys == KeysOf(Codes \ EditCodes, TypedChars, {"Press"})
              \cup {Key("Esc", "", "Release"), Key("Char", "p", "Repeat")}

KeyEvt(key) == [type |-> "Key", key |-> key]
ResizeEvt == [type |-> "Resize", key |-> NoKey]
\* Mouse, focus and paste events
OtherEvt == [type |-> "Other", key |-> NoKey]

(***************************************************************************)
(* The host loop.                                                          *)
(***************************************************************************)
\* ColorPickerWidget::default, ColorInput::default
Init ==
    /\ color_picker = [modal_state |-> FALSE,
                       grid_index  |-> <<0, 0>>,
                       color_input |-> [input |-> <<>>, cursor_pos |-> 0],
                       focus       |-> "Grid"]
    /\ running = TRUE
    /\ message = Msg("")
    /\ steps = 0
    /\ palette = BuiltIn
    /\ panicked = FALSE

\* One iteration of `while running`: read an event, update the model; a panic
\* in update aborts the process with the model as it was
MainLoop(event) ==
    /\ running
    /\ ~panicked
    /\ message' = handle_event(event)
    /\ IF update_panics(color_picker, handle_event(event))
       THEN /\ panicked' = TRUE
            /\ running' = FALSE
            /\ UNCHANGED color_picker
       ELSE LET r == update(color_picker, handle_event(event))
            IN  /\ color_picker' = r.model
                /\ running' = r.running
                /\ panicked' = FALSE
    /\ UNCHANGED palette

KeyEvent == \E key \in NavKeys : MainLoop(KeyEvt(key)) /\ UNCHANGED steps
Resize == MainLoop(ResizeEvt) /\ UNCHANGED steps
OtherEvent == MainLoop(OtherEvt) /\ UNCHANGED steps

Next == KeyEvent \/ Resize \/ OtherEvent

Spec == Init /\ [][Next]_vars

\* The same loop with every key, field edits included, for MaxSteps events
BoundedKeyEvent ==
    /\ steps < MaxSteps
    /\ \E key \in AllKeys : MainLoop(KeyEvt(key))
    /\ steps' = steps + 1
BoundedResize == steps < MaxSteps /\ MainLoop(ResizeEvt) /\ steps' = steps + 1
BoundedOtherEvent == steps < MaxSteps /\ MainLoop(OtherEvt) /\ steps' = steps + 1

NextEdit == BoundedKeyEvent \/ BoundedResize \/ BoundedOtherEvent

SpecEdit == Init /\ [][NextEdit]_vars

(***************************************************************************)
(* color_to_hex and the grid-to-field sync as functions of the colour      *)
(* table: the same loop on a widget constructed with a one-row table of    *)
(* two cells, the second one without channels or missing from the table.   *)
(***************************************************************************)
\* RGB inputs: every value 0..255 occurs in each channel, plus 0x336699
SampleRgb == {Rgb(v, 255 - v, (7 * v) % 256) : v \in 0..255} \cup {Rgb(51, 102, 153)}
SampleNonRgb == {NonRgb("Reset"), NonRgb("Red"), NonRgb("Indexed")}
SampleTables ==
    {Given(<<c, n>>, <<1, 2>>) : c \in SampleRgb, n \in SampleNonRgb}
        \cup {Given(<<c>>, <<1, 2>>) : c \in SampleRgb}
\* Keys that run the sync: the toggle key and the arrows of a one-row grid
SyncKeys == KeysOf({"Left", "Right"}, {"p"}, {"Press"})

InitSync ==
    /\ color_picker = [modal_state |-> FALSE,
                       grid_index  |-> <<0, 0>>,
                       color_input |-> [input |-> <<>>, cursor_pos |-> 0],
                       focus       |-> "Grid"]
    /\ running = TRUE
    /\ message = Msg("")
    /\ steps = 0
    /\ palette \in SampleTables
    /\ panicked = FALSE

SyncKeyEvent == \E key \in SyncKeys : MainLoop(KeyEvt(key)) /\ UNCHANGED steps

NextSync == SyncKeyEvent \/ Resize \/ OtherEvent

SpecSync == InitSync /\ [][NextSync]_vars

(***************************************************************************)
(* Vocabulary of the properties.                                           *)
(***************************************************************************)
Press(code) == KeyPress(Key(code, "", "Press"))
PressChar(c) == KeyPress(Key("Char", c, "Press"))
ArrowPresses == {Press("Up"), Press("Down"), Press("Left"), Press("Right")}

\* Value of an upper-case hex digit, and of the two-digit pair starting at i
HexValue(ch) == (CHOOSE i \in 1..16 : UpperHexDigits[i] = ch) - 1
PairValue(s, i) == 16 * HexValue(s[i]) + HexValue(s[i + 1])

\* s is the 6-character upper-case RRGGBB text of the RGB colour c
EncodesRRGGBB(s, c) ==
    /\ Len(s) = 6
    /\ \A i \in 1..6 : s[i] \in Range(UpperHexDigits)
    /\ c.tag = "Rgb"
    /\ PairValue(s, 1) = c.r /\ PairValue(s, 3) = c.g /\ PairValue(s, 5) = c.b

\* The field is valid: length exactly 6 and every character a hex digit
FieldValid(ci) ==
    /\ Len(ci.input) = 6
    /\ \A i \in DOMAIN ci.input : is_ascii_hexdigit(ci.input[i])

\* The palette colour under a grid cursor, row-major
ColorAt(grid_index) == colors[grid_index[1] * 16 + grid_index[2] + 1]

\* The field holds the encoding of the colour at the grid cursor, cursor at end
FieldSynced(cp) ==
    /\ EncodesRRGGBB(cp.color_input.input, ColorAt(cp.grid_index))
    /\ cp.color_input.cursor_pos = Len(cp.color_input.input)

(***************************************************************************)
(* C1: when the modal goes from closed to open, and when an arrow key is   *)
(* handled with focus on the grid while the modal is open, the field       *)
(* afterwards holds the 6-character upper-case RRGGBB text of the colour   *)
(* at the grid cursor, the field cursor is at the end of the text, and the *)
(* field is valid.                                                         *)
(***************************************************************************)
C1_SyncOnOpenAndGridMove ==
    [][ ( \/ ~color_picker.modal_state /\ color_picker'.modal_state
          \/ /\ color_picker.modal_state
             /\ color_picker.focus = "Grid"
             /\ message' \in ArrowPresses )
        => /\ FieldSynced(color_picker')
           /\ FieldValid(color_picker'.color_input) ]_vars

\* The modal was reopened by the toggle key on the last palette cell, which
\* only arrow keys on the grid reach.
C1_Witness ==
    /\ message = PressChar("p")
    /\ color_picker.modal_state
    /\ color_picker.grid_index = <<9, 15>>
    /\ color_picker.color_input = [input |-> <<"B", "F", "3", "6", "0", "C">>, cursor_pos |-> 6]

(***************************************************************************)
(* C2: with the modal open, Esc closes the modal (modal_state becomes      *)
(* false) and the host keeps running; Esc quits the host only when the     *)
(* modal is closed.                                                        *)
(***************************************************************************)
C2_EscClosesOpenModal ==
    [][ (color_picker.modal_state /\ message' = Press("Esc"))
        => (~color_picker'.modal_state /\ running') ]_vars

(***************************************************************************)
(* C3: with the modal open and focus on Apply or Cancel, Enter closes the  *)
(* modal: modal_state is false after the event is handled.                 *)
(***************************************************************************)
C3_EnterOnButtonClosesModal ==
    [][ ( /\ color_picker.modal_state
          /\ color_picker.focus \in {"Apply", "Cancel"}
          /\ message' = Press("Enter") )
        => ~color_picker'.modal_state ]_vars

(***************************************************************************)
(* C4: Apply and Cancel differ in what the host observes: when Enter is    *)
(* handled on Apply, what update hands back (the model it leaves and its   *)
(* result) differs from what cancelling in the same state hands back.      *)
(***************************************************************************)
C4_ApplyDiffersFromCancel ==
    [][ ( /\ color_picker.modal_state
          /\ color_picker.focus = "Apply"
          /\ message' = Press("Enter") )
        => Ok(color_picker', running') # update(color_picker, Msg("CancelColorSelection")) ]_vars

(***************************************************************************)
(* C5: in every reachable state the grid cursor satisfies 0 <= row < rows  *)
(* and 0 <= col < cols, with rows = 10 and cols = 16.                      *)
(***************************************************************************)
C5_GridCursorInBounds ==
    /\ grid_dimensions = <<10, 16>>
    /\ color_picker.grid_index[1] \in 0..(grid_dimensions[1] - 1)
    /\ color_picker.grid_index[2] \in 0..(grid_dimensions[2] - 1)

\* Right was pressed on the grid with the cursor in the last row and column.
C5_Witness ==
    /\ message = Press("Right")
    /\ color_picker.modal_state
    /\ color_picker.focus = "Grid"
    /\ color_picker.grid_index = <<9, 15>>

(***************************************************************************)
(* C6: in every reachable state the field satisfies 0 <= len <= 6 and      *)
(* 0 <= cursor <= len.                                                     *)
(***************************************************************************)
C6_FieldBounds ==
    /\ Len(color_picker.color_input.input) \in 0..6
    /\ color_picker.color_input.cursor_pos \in 0..Len(color_picker.color_input.input)

\* A hex character was typed into the field and brought it back to length 6
\* with the cursor at the end.
C6_Witness ==
    /\ message = PressChar("a")
    /\ color_picker.focus = "Input"
    /\ Len(color_picker.color_input.input) = 6
    /\ color_picker.color_input.cursor_pos = 6
    /\ color_picker.color_input.input[6] = "A"
    /\ ~FieldSynced(color_picker)

(***************************************************************************)
(* C7: with the modal open and focus on the grid or the field, Enter does  *)
(* not close the modal: visibility, focus, grid cursor and field are       *)
(* unchanged and the host keeps running.                                   *)
(***************************************************************************)
C7_EnterOffButtonsIsNoOp ==
    [][ ( /\ color_picker.modal_state
          /\ color_picker.focus \in {"Grid", "Input"}
          /\ message' = Press("Enter") )
        => (color_picker' = color_picker /\ running') ]_vars

\* Enter was handled with focus on the field, after an edit of the field.
C7_Witness ==
    /\ message = Press("Enter")
    /\ color_picker.modal_state
    /\ color_picker.focus = "Input"
    /\ Len(color_picker.color_input.input) = 5
    /\ running

(***************************************************************************)
(* C8: with the modal open, Tab moves focus to the next target of the      *)
(* cycle Grid, Field, Apply, Cancel, Grid and Shift+Tab to the previous    *)
(* one, from every focus, and neither changes the grid cursor, the field   *)
(* digits, the field cursor or the visibility.                             *)
(***************************************************************************)
CycleNext == [f \in Focus |->
                CASE f = "Grid" -> "Input" [] f = "Input" -> "Apply"
                  [] f = "Apply" -> "Cancel" [] f = "Cancel" -> "Grid"]

C8_TabMovesOnlyFocus ==
    [][ ( /\ color_picker.modal_state
          /\ message' \in {Press("Tab"), Press("BackTab")} )
        => /\ message' = Press("Tab") => color_picker'.focus = CycleNext[color_picker.focus]
           /\ message' = Press("BackTab") => CycleNext[color_picker'.focus] = color_picker.focus
           /\ color_picker' = [color_picker EXCEPT !.focus = color_picker'.focus]
           /\ running' ]_vars

\* Tab was handled with focus on the field, whose text had been edited.
C8_Witness ==
    /\ message = Press("Tab")
    /\ color_picker.modal_state
    /\ color_picker.focus = "Apply"
    /\ Len(color_picker.color_input.input) = 5

(***************************************************************************)
(* C9: from the current focus, four applications of focus_next return to   *)
(* it and one, two or three do not, and focus_prev is the inverse of       *)
(* focus_next on both sides.                                               *)
(***************************************************************************)
C9_FocusCycleOfFour ==
    LET f == color_picker.focus
    IN  /\ focus_next(focus_next(focus_next(focus_next(f)))) = f
        /\ focus_next(f) # f
        /\ focus_next(focus_next(f)) # f
        /\ focus_next(focus_next(focus_next(f))) # f
        /\ focus_prev(focus_next(f)) = f
        /\ focus_next(focus_prev(f)) = f

\* Shift+Tab took the focus from the grid to Cancel.
C9_Witness ==
    /\ message = Press("BackTab")
    /\ color_picker.modal_state
    /\ color_picker.focus = "Cancel"

(***************************************************************************)
(* C10: closing the modal and reopening it with the toggle key leaves the  *)
(* grid cursor and the focus as they were before the close: the toggle key *)
(* flips the visibility without touching them, and no event touches them   *)
(* while the modal is closed; closing leaves the field as it was, and      *)
(* reopening rewrites it to the encoding of the colour at the grid cursor. *)
(***************************************************************************)
C10_ReopenKeepsCursorAndFocus ==
    [][ /\ (message' = PressChar("p") \/ ~color_picker.modal_state)
            => /\ color_picker'.grid_index = color_picker.grid_index
               /\ color_picker'.focus = color_picker.focus
        /\ message' = PressChar("p")
            => /\ color_picker'.modal_state = ~color_picker.modal_state
               /\ running'
        /\ (message' = PressChar("p") /\ color_picker.modal_state)
            => color_picker'.color_input = color_picker.color_input
        /\ (message' = PressChar("p") /\ ~color_picker.modal_state)
            => FieldSynced(color_picker') ]_vars

\* The modal was reopened with focus on the field and the grid cursor off
\* the first cell.
C10_Witness ==
    /\ message = PressChar("p")
    /\ color_picker.modal_state
    /\ color_picker.focus = "Input"
    /\ color_picker.grid_index = <<0, 1>>
    /\ FieldSynced(color_picker)

(***************************************************************************)
(* C11: with the modal open and focus on the field, a key routed to the    *)
(* field (a character, Backspace, Delete, Home or an arrow) leaves the     *)
(* grid cursor, the focus and the visibility unchanged; an arrow key moves *)
(* the grid cursor only when the focus is on the grid.                     *)
(***************************************************************************)
FieldKeyPresses ==
    {PressChar("a"), PressChar("7"), PressChar("Z"), Press("Backspace"),
     Press("Delete"), Press("Home")} \cup ArrowPresses

C11_FieldKeysLeaveGridAlone ==
    [][ /\ ( /\ color_picker.modal_state
             /\ color_picker.focus = "Input"
             /\ message' \in FieldKeyPresses )
            => /\ color_picker'.grid_index = color_picker.grid_index
               /\ color_picker'.focus = color_picker.focus
               /\ color_picker'.modal_state = color_picker.modal_state
               /\ running'
        /\ ( /\ message' \in ArrowPresses
             /\ color_picker'.grid_index # color_picker.grid_index )
            => (color_picker.modal_state /\ color_picker.focus = "Grid") ]_vars

\* Left was handled by the field, moving its cursor, with the grid cursor
\* off the first cell.
C11_Witness ==
    /\ message = Press("Left")
    /\ color_picker.modal_state
    /\ color_picker.focus = "Input"
    /\ color_picker.grid_index = <<0, 1>>
    /\ color_picker.color_input.cursor_pos = 5

(***************************************************************************)
(* C12: a key event of kind Release or Repeat, whatever its code and       *)
(* whatever the state, leaves visibility, focus, grid cursor and field     *)
(* unchanged and does not stop the host loop.                              *)
(***************************************************************************)
C12_OnlyPressChangesState ==
    [][ (message'.type = "KeyPress" /\ message'.key.kind \in {"Release", "Repeat"})
        => (color_picker' = color_picker /\ running') ]_vars

\* The release of Esc was handled with the modal open on the field.
C12_Witness ==
    /\ message = KeyPress(Key("Esc", "", "Release"))
    /\ color_picker.modal_state
    /\ color_picker.focus = "Input"
    /\ running

(***************************************************************************)
(* C13: when the colour at the grid cursor has no RGB encoding, or the     *)
(* table holds no colour there, the grid-to-field sync run on opening the  *)
(* modal or on a grid move leaves the field's digits and cursor as they    *)
(* were.                                                                   *)
(***************************************************************************)
\* The modal goes from closed to open, or an arrow is handled on the grid
SyncStep ==
    \/ ~color_picker.modal_state /\ color_picker'.modal_state
    \/ /\ color_picker.modal_state
       /\ color_picker.focus = "Grid"
       /\ message' \in ArrowPresses

\* The table has no colour under the grid cursor of cp, or one without channels
NoRgbAtCursor(cp) ==
    LET idx == cp.grid_index[1] * grid_dimensions[2] + cp.grid_index[2]
    IN  idx >= Len(colors) \/ colors[idx + 1].tag # "Rgb"

C13_SyncSkippedWithoutRgb ==
    [][ (SyncStep /\ NoRgbAtCursor(color_picker'))
        => color_picker'.color_input = color_picker.color_input ]_vars

\* The modal was reopened on a Reset cell and the field still reads 336699.
C13_Witness ==
    /\ message = PressChar("p")
    /\ color_picker.modal_state
    /\ color_picker.grid_index = <<0, 1>>
    /\ Len(colors) = 2 /\ colors[2] = NonRgb("Reset")
    /\ color_picker.color_input = [input |-> <<"3", "3", "6", "6", "9", "9">>, cursor_pos |-> 6]

(***************************************************************************)
(* C14: with the modal open and focus on the grid, Apply or Cancel, a key  *)
(* with no transition for that focus (a character other than the toggle    *)
(* and quit keys, Backspace, Delete, Home, and the arrows on Apply or      *)
(* Cancel) changes nothing: visibility, focus, grid cursor and field are   *)
(* unchanged and the host keeps running.                                   *)
(***************************************************************************)
UnboundKeyPresses(focus) ==
    {PressChar("a"), PressChar("7"), PressChar("Z"), Press("Backspace"),
     Press("Delete"), Press("Home")}
        \cup (IF focus \in {"Apply", "Cancel"} THEN ArrowPresses ELSE {})

C14_UnboundKeysAreNoOps ==
    [][ ( /\ color_picker.modal_state
          /\ color_picker.focus \in {"Grid", "Apply", "Cancel"}
          /\ message' \in UnboundKeyPresses(color_picker.focus) )
        => (color_picker' = color_picker /\ running') ]_vars

\* Backspace was handled with focus on Apply, the field holding an edited text.
C14_Witness ==
    /\ message = Press("Backspace")
    /\ color_picker.modal_state
    /\ color_picker.focus = "Apply"
    /\ Len(color_picker.color_input.input) = 5
    /\ running

(***************************************************************************)
(* C15: the state machine is total: in every reachable state no event has  *)
(* made the handler panic, and for every key event the handler neither     *)
(* reaches unreachable!() nor a String insert or remove out of range, and  *)
(* returns a result.                                                       *)
(***************************************************************************)
C15_NeverFaults ==
    /\ ~panicked
    /\ \A key \in AllKeys :
          /\ ~update_panics(color_picker, KeyPress(key))
          /\ update(color_picker, KeyPress(key)).running \in BOOLEAN

\* Delete removed the last character of the field, at cursor = len - 1.
C15_Witness ==
    /\ message = Press("Delete")
    /\ color_picker.modal_state
    /\ color_picker.focus = "Input"
    /\ Len(color_picker.color_input.input) = 5
    /\ color_picker.color_input.cursor_pos = 5
    /\ ~panicked

(***************************************************************************)
(* C16: a grid move changes the cursor by one step on one axis and clamps  *)
(* without wrapping: Up and Down change the row by -1 and +1 within        *)
(* 0..rows-1 and keep the column, Left and Right change the column by -1   *)
(* and +1 within 0..cols-1 and keep the row, and a move against an edge    *)
(* leaves the cursor where it is.                                          *)
(***************************************************************************)
C16_GridMoveClamps ==
    [][ ( /\ color_picker.modal_state
          /\ color_picker.focus = "Grid"
          /\ message' \in ArrowPresses )
        => LET row  == color_picker.grid_index[1]
               col  == color_picker.grid_index[2]
               row2 == color_picker'.grid_index[1]
               col2 == color_picker'.grid_index[2]
           IN  /\ message' = Press("Up")
                    => col2 = col /\ row2 = (IF row = 0 THEN 0 ELSE row - 1)
               /\ message' = Press("Down")
                    => col2 = col /\ row2 = (IF row = 9 THEN 9 ELSE row + 1)
               /\ message' = Press("Left")
                    => row2 = row /\ col2 = (IF col = 0 THEN 0 ELSE col - 1)
               /\ message' = Press("Right")
                    => row2 = row /\ col2 = (IF col = 15 THEN 15 ELSE col + 1) ]_vars

\* Down was pressed on the grid with the cursor in the last row.
C16_Witness ==
    /\ message = Press("Down")
    /\ color_picker.modal_state
    /\ color_picker.focus = "Grid"
    /\ color_picker.grid_index = <<9, 7>>

(***************************************************************************)
(* C17: with focus on the field, a character key is accepted iff it is an  *)
(* ASCII hex digit and the field is shorter than 6; when accepted, its     *)
(* upper-case form is inserted at the cursor, the characters after the     *)
(* cursor shift right and the cursor advances by one; otherwise digits and *)
(* cursor are unchanged.                                                   *)
(***************************************************************************)
HexChars == {"0", "1", "2", "3", "4", "5", "6", "7", "8", "9",
             "a", "b", "c", "d", "e", "f", "A", "B", "C", "D", "E", "F"}
\* The characters typed in the model that reach the field, with their
\* upper-case forms
UpperCaseOf == [c \in {"a", "7", "Z"} |-> CASE c = "a" -> "A" [] c = "7" -> "7" [] c = "Z" -> "Z"]

C17_InsertHexAtCursor ==
    [][ \A c \in DOMAIN UpperCaseOf :
          ( /\ color_picker.modal_state
            /\ color_picker.focus = "Input"
            /\ message' = PressChar(c) )
          => LET old == color_picker.color_input
                 new == color_picker'.color_input
             IN  IF c \in HexChars /\ Len(old.input) < 6
                 THEN /\ Len(new.input) = Len(old.input) + 1
                      /\ new.cursor_pos = old.cursor_pos + 1
                      /\ new.input[old.cursor_pos + 1] = UpperCaseOf[c]
                      /\ \A i \in 1..old.cursor_pos : new.input[i] = old.input[i]
                      /\ \A i \in (old.cursor_pos + 1)..Len(old.input) :
                            new.input[i + 1] = old.input[i]
                 ELSE new = old ]_vars

\* "a" was typed in the middle of a 5-character field: FFEB|E became FFEBA|E.
C17_Witness ==
    /\ message = PressChar("a")
    /\ color_picker.modal_state
    /\ color_picker.focus = "Input"
    /\ color_picker.color_input = [input |-> <<"F", "F", "E", "B", "A", "E">>, cursor_pos |-> 5]

(***************************************************************************)
(* C18: with focus on the field, Backspace removes the character before    *)
(* the cursor and decrements the cursor, and does nothing at cursor 0;     *)
(* Delete removes the character at the cursor and keeps the cursor, and    *)
(* does nothing at the end of the text; the other characters keep their    *)
(* order.                                                                  *)
(***************************************************************************)
\* new is old without its k-th character (1-based)
Without(old, k, new) ==
    /\ Len(new) = Len(old) - 1
    /\ \A i \in 1..(k - 1) : new[i] = old[i]
    /\ \A i \in k..Len(new) : new[i] = old[i + 1]

C18_BackspaceAndDelete ==
    [][ (color_picker.modal_state /\ color_picker.focus = "Input")
        => LET old == color_picker.color_input
               new == color_picker'.color_input
           IN  /\ message' = Press("Backspace")
                    => IF old.cursor_pos = 0 THEN new = old
                       ELSE /\ Without(old.input, old.cursor_pos, new.input)
                            /\ new.cursor_pos = old.cursor_pos - 1
               /\ message' = Press("Delete")
                    => IF old.cursor_pos = Len(old.input) THEN new = old
                       ELSE /\ Without(old.input, old.cursor_pos + 1, new.input)
                            /\ new.cursor_pos = old.cursor_pos ]_vars

\* Backspace removed the B of FFEB|EE.
C18_Witness ==
    /\ message = Press("Backspace")
    /\ color_picker.modal_state
    /\ color_picker.focus = "Input"
    /\ color_picker.color_input = [input |-> <<"F", "F", "E", "E", "E">>, cursor_pos |-> 3]

(***************************************************************************)
(* C19: for every RGB colour of the table, color_to_hex returns a          *)
(* 6-character upper-case hex string whose three pairs parse back to r, g  *)
(* and b, and for every colour without channels it returns nothing.        *)
(***************************************************************************)
C19_ColorToHexRoundTrip ==
    \A i \in DOMAIN colors :
        LET c   == colors[i]
            hex == color_to_hex(c)
        IN  IF c.tag = "Rgb"
            THEN hex.some /\ EncodesRRGGBB(hex.val, c)
            ELSE ~hex.some

\* The sync wrote the text of Rgb(10, 245, 70), which has a leading zero and
\* letters, into the field.
C19_Witness ==
    /\ color_picker.modal_state
    /\ colors[1] = Rgb(10, 245, 70)
    /\ color_picker.color_input.input = <<"0", "A", "F", "5", "4", "6">>

(***************************************************************************)
(* C20: while the modal is closed, every key other than the toggle key and *)
(* the quit keys leaves the grid cursor, the focus, the field digits and   *)
(* the field cursor unchanged and the modal closed.                        *)
(***************************************************************************)
KeysIgnoredWhenClosed ==
    {Press(code) : code \in Codes \ {"Esc"}}
        \cup {PressChar("a"), PressChar("7"), PressChar("Z")}

C20_ClosedModalIgnoresKeys ==
    [][ (~color_picker.modal_state /\ message' \in KeysIgnoredWhenClosed)
        => (color_picker' = color_picker /\ running') ]_vars

\* Tab was handled with the modal closed and the focus left on the field.
C20_Witness ==
    /\ message = Press("Tab")
    /\ ~color_picker.modal_state
    /\ color_picker.focus = "Input"
    /\ running

(***************************************************************************)
(* C21: in every reachable state the row-major index row * cols + col of   *)
(* the grid cursor is within the colour table, whose length is             *)
(* rows * cols = 160, so selected_color() is present; every entry of the   *)
(* table is RGB, so the colour under the cursor has a hex encoding and the *)
(* grid-to-field sync is never skipped.                                    *)
(***************************************************************************)
CursorIndex(cp) == cp.grid_index[1] * grid_dimensions[2] + cp.grid_index[2]

\* Every swatch generate_colors pushes carries the three channels
EveryGeneratedEntryRgb ==
    \A i \in DOMAIN generate_colors.colors : generate_colors.colors[i].tag = "Rgb"

C21_SelectedColorPresentAndRgb ==
    /\ palette = BuiltIn
    /\ Len(colors) = grid_dimensions[1] * grid_dimensions[2]
    /\ Len(colors) = 160
    /\ CursorIndex(color_picker) \in 0..(Len(colors) - 1)
    /\ selected_color(color_picker) = Some(colors[CursorIndex(color_picker) + 1])
    /\ EveryGeneratedEntryRgb
    /\ color_to_hex(selected_color(color_picker).val).some
    /\ update_color_from_grid(color_picker).color_input
          = [input      |-> color_to_hex(colors[CursorIndex(color_picker) + 1]).val,
             cursor_pos |-> 6]

\* Down was pressed on the grid with the cursor on the last entry of the
\* table (index 159), and the field holds that entry's encoding.
C21_Witness ==
    /\ message = Press("Down")
    /\ color_picker.modal_state
    /\ color_picker.focus = "Grid"
    /\ CursorIndex(color_picker) = 159
    /\ selected_color(color_picker).some
    /\ color_picker.color_input.input = color_to_hex(colors[160]).val

=============================================================================
